---------------------------- MODULE Spec2Model ----------------------------
(***************************************************************************)
(* A model of the crypto monitoring agent: the analyzer                    *)
(* (src/src/analyzer.py, CryptoTrendAnalyzer), its configuration           *)
(* (src/config/config.py, Config) and the realtime agent's alert ledger    *)
(* and batch analysis (src/main.py, CryptoRealtimeAgent).                  *)
(*                                                                         *)
(* Numbers.  The program computes with IEEE doubles.  The model computes   *)
(* with exact rationals [k |-> "num", n, d] (d > 0, lowest terms), plus    *)
(* the two special doubles the code can produce: NaN (a rolling window not *)
(* yet filled, or 0/0) and +Inf (gain/0 in the RSI).  Python's None is a   *)
(* fourth value.  Comparisons with NaN are false, as in IEEE.              *)
(***************************************************************************)
EXTENDS Integers, Sequences, FiniteSets, TLC

VARIABLES
    alerts,            \* CryptoRealtimeAgent.alerts: the ledger, a sequence
    processed_alerts,  \* CryptoRealtimeAgent.processed_alerts: seen ids
    last_analysis,     \* CryptoRealtimeAgent.last_analysis: symbol -> result
    now,               \* the wall clock's minute (datetime.now(), %Y%m%d_%H%M)
    accepted,          \* history: the ids add_alert appended, in order
    pc,                \* "idle", or the operation that has just returned
    call               \* what the operation that just returned was given,
                       \* what it returned and which collaborators it called

vars == <<alerts, processed_alerts, last_analysis, now, accepted, pc, call>>

----------------------------------------------------------------------------
(* Configuration: src/config/config.py *)

SYMBOLS_TO_MONITOR == <<"BTCUSDT", "ETHUSDT", "SOLUSDT">>

TIMEFRAMES_default == "1d"

TIMEFRAMES_available ==
    {"1m", "3m", "5m", "15m", "30m", "1h", "2h", "4h", "6h", "8h", "12h",
     "1d", "3d", "1w", "1M"}

ANALYSIS_default_days == 30

ANALYSIS_max_days == 365

MA_default_period == 20

RSI_period == 14

TREND_min_points == 5

\* TREND['breakout_threshold'] = 0.02, as the fraction 2/100
BreakoutThresholdNum == 2

BreakoutThresholdDen == 100

\* the literals of analyzer.py and main.py
SR_BufferNum == 2

SR_BufferDen == 100

RSI_upper == 70

RSI_lower == 30

VolumeWindow == 20

VolumeSpikeFactor == 2

RecentBreaks == 5

MaxAlerts == 5

MaxProcessed == 1000

is_valid_symbol(symbol) ==
    \E i \in DOMAIN SYMBOLS_TO_MONITOR : SYMBOLS_TO_MONITOR[i] = symbol

get_timeframe(timeframe) ==
    IF timeframe # "" /\ timeframe \in TIMEFRAMES_available
    THEN timeframe
    ELSE TIMEFRAMES_default

----------------------------------------------------------------------------
(* Doubles, as exact rationals with NaN and +Inf; Python's None *)

None == [k |-> "none"]

NaN == [k |-> "nan"]

Inf == [k |-> "inf"]

AbsInt(i) == IF i < 0 THEN -i ELSE i

RECURSIVE GCD(_, _)
GCD(a, b) == IF b = 0 THEN a ELSE GCD(b, a % b)

\* the rational n/d (d # 0) in lowest terms with a positive denominator
Num(n, d) ==
    LET g == GCD(AbsInt(n), AbsInt(d))
        s == IF d < 0 THEN -1 ELSE 1
    IN  [k |-> "num", n |-> s * (n \div g), d |-> s * (d \div g)]

Float(i) == [k |-> "num", n |-> i, d |-> 1]

IsNum(a) == a.k = "num"

IsNaN(a) == a.k = "nan"

\* a + b, a - b, a * b, a / b on doubles (+Inf arises only in the RSI, where
\* it meets Add and Div)
Add(a, b) ==
    IF IsNaN(a) \/ IsNaN(b) THEN NaN
    ELSE IF a.k = "inf" \/ b.k = "inf" THEN Inf
    ELSE Num(a.n * b.d + b.n * a.d, a.d * b.d)

Neg(a) == IF IsNum(a) THEN [a EXCEPT !.n = -a.n] ELSE NaN

Sub(a, b) ==
    IF IsNaN(a) \/ IsNaN(b) THEN NaN
    ELSE IF a.k = "inf" \/ b.k = "inf" THEN NaN
    ELSE Num(a.n * b.d - b.n * a.d, a.d * b.d)

Mul(a, b) ==
    IF IsNum(a) /\ IsNum(b) THEN Num(a.n * b.n, a.d * b.d) ELSE NaN

\* IEEE division: x/0 is +Inf for x > 0, NaN for 0/0; x/Inf is 0
Div(a, b) ==
    IF IsNaN(a) \/ IsNaN(b) THEN NaN
    ELSE IF b.k = "inf" THEN (IF IsNum(a) THEN Float(0) ELSE NaN)
    ELSE IF a.k = "inf" THEN Inf
    ELSE IF b.n = 0 THEN (IF a.n > 0 THEN Inf ELSE NaN)
    ELSE Num(a.n * b.d, a.d * b.n)

Abs(a) == IF IsNum(a) THEN [a EXCEPT !.n = AbsInt(a.n)] ELSE a

\* a < b, a <= b, a > b, a >= b: false when either side is NaN
Lt(a, b) == IsNum(a) /\ IsNum(b) /\ a.n * b.d < b.n * a.d

Le(a, b) == IsNum(a) /\ IsNum(b) /\ a.n * b.d <= b.n * a.d

Gt(a, b) == Lt(b, a)

Ge(a, b) == Le(b, a)

\* Python truthiness of a float or None: None and 0.0 are false, NaN is true
Truthy(a) == a.k # "none" /\ ~(IsNum(a) /\ a.n = 0)

BreakoutThreshold == Num(BreakoutThresholdNum, BreakoutThresholdDen)

OnePlusThreshold == Add(Float(1), BreakoutThreshold)

OneMinusThreshold == Sub(Float(1), BreakoutThreshold)

RECURSIVE SumInt(_, _, _)
\* f[lo] + ... + f[hi] over integers
SumInt(f, lo, hi) == IF hi < lo THEN 0 ELSE SumInt(f, lo, hi - 1) + f[hi]

MinOf(S) == CHOOSE m \in S : \A x \in S : m <= x

MaxOf(S) == CHOOSE m \in S : \A x \in S : m >= x

\* Series.shift(1): the value one row earlier, NaN in the first row
Shift1(col) == [i \in DOMAIN col |-> IF i = 1 THEN NaN ELSE col[i - 1]]

----------------------------------------------------------------------------
(* The Series Store and the Indicator Engine: src/src/analyzer.py.          *)
(* A DataFrame is a sequence of bars [high, low, close, volume] of integer  *)
(* values (the columns the computations read; `open` and the timestamp      *)
(* index are read by none).  A derived column is a function on the same     *)
(* index 1..Len(df) whose values are doubles.                               *)

Rows(df) == 1 .. Len(df)

\* df['low'].rolling(window=period).min(), df['high'].rolling(...).max()
_calculate_support_resistance(df) ==
    LET period == MA_default_period
    IN  [support |->
            [i \in Rows(df) |->
                IF i < period THEN NaN
                ELSE Float(MinOf({df[j].low : j \in (i - period + 1) .. i}))],
         resistance |->
            [i \in Rows(df) |->
                IF i < period THEN NaN
                ELSE Float(MaxOf({df[j].high : j \in (i - period + 1) .. i}))]]

\* np.polyfit(x, y, 1) on x = 0..n-1: the least-squares line, evaluated at
\* every x; a column of NaN below TREND['min_points'] rows
_calculate_trend_line(prices) ==
    LET n == Len(prices)
    IN  IF n < TREND_min_points THEN [i \in 1 .. n |-> NaN]
        ELSE
          LET Sx  == SumInt([i \in 1 .. n |-> i - 1], 1, n)
              Sy  == SumInt(prices, 1, n)
              Sxy == SumInt([i \in 1 .. n |-> (i - 1) * prices[i]], 1, n)
              Sxx == SumInt([i \in 1 .. n |-> (i - 1) * (i - 1)], 1, n)
              slope == Num(n * Sxy - Sx * Sy, n * Sxx - Sx * Sx)
              intercept == Div(Sub(Float(Sy), Mul(slope, Float(Sx))), Float(n))
          IN  [i \in 1 .. n |-> Add(Mul(slope, Float(i - 1)), intercept)]

\* the RSI column: simple rolling means of the gains and of the losses
RSI_column(df) ==
    LET n == Len(df)
        \* delta = close.diff(): NaN in the first row
        \* delta.where(delta > 0, 0): NaN > 0 is false, so row 1 holds 0
        gain == [i \in 1 .. n |->
                    IF i > 1 /\ df[i].close - df[i - 1].close > 0
                    THEN df[i].close - df[i - 1].close ELSE 0]
        loss == [i \in 1 .. n |->
                    IF i > 1 /\ df[i].close - df[i - 1].close < 0
                    THEN df[i - 1].close - df[i].close ELSE 0]
        avg(col, i) == IF i < RSI_period THEN NaN
                       ELSE Num(SumInt(col, i - RSI_period + 1, i), RSI_period)
    IN  [i \in 1 .. n |->
            LET rs == Div(avg(gain, i), avg(loss, i))
            IN  Sub(Float(100), Div(Float(100), Add(Float(1), rs)))]

\* A variant of _detect_trend_breaks that compares each close with its own
\* row's levels instead of the previous row's (no shift(1)); C10 tells it
\* from the code's.
_detect_trend_breaks_unshifted(df, support, resistance) ==
    LET close == [i \in Rows(df) |-> Float(df[i].close)]
        prev_close == Shift1(close)
        up_break == [i \in Rows(df) |->
                        /\ Gt(close[i], Mul(resistance[i], OnePlusThreshold))
                        /\ Le(prev_close[i], resistance[i])]
        down_break == [i \in Rows(df) |->
                        /\ Lt(close[i], Mul(support[i], OneMinusThreshold))
                        /\ Ge(prev_close[i], support[i])]
    IN  [i \in Rows(df) |-> IF down_break[i] THEN Float(-1)
                            ELSE IF up_break[i] THEN Float(1) ELSE NaN]

\* breaks[up_break] = 1, then breaks[down_break] = -1
_detect_trend_breaks(df, support, resistance) ==
    LET close == [i \in Rows(df) |-> Float(df[i].close)]
        prev_close == Shift1(close)
        prev_res == Shift1(resistance)
        prev_sup == Shift1(support)
        up_break == [i \in Rows(df) |->
                        /\ Gt(close[i], Mul(prev_res[i], OnePlusThreshold))
                        /\ Le(prev_close[i], prev_res[i])]
        down_break == [i \in Rows(df) |->
                        /\ Lt(close[i], Mul(prev_sup[i], OneMinusThreshold))
                        /\ Ge(prev_close[i], prev_sup[i])]
        breaks0 == [i \in Rows(df) |-> NaN]
        breaks1 == [i \in Rows(df) |-> IF up_break[i] THEN Float(1) ELSE breaks0[i]]
    IN  [i \in Rows(df) |-> IF down_break[i] THEN Float(-1) ELSE breaks1[i]]

\* the columns the analysis reads (the MA and Bollinger columns are computed
\* by the code too and read by nothing)
calculate_technical_indicators(df) ==
    LET sr == _calculate_support_resistance(df)
    IN  [close      |-> [i \in Rows(df) |-> Float(df[i].close)],
         high       |-> [i \in Rows(df) |-> Float(df[i].high)],
         low        |-> [i \in Rows(df) |-> Float(df[i].low)],
         volume     |-> [i \in Rows(df) |-> Float(df[i].volume)],
         trend_line |-> _calculate_trend_line([i \in Rows(df) |-> df[i].close]),
         support    |-> sr.support,
         resistance |-> sr.resistance,
         RSI        |-> RSI_column(df),
         trend_break |-> _detect_trend_breaks(df, sr.support, sr.resistance)]

----------------------------------------------------------------------------
(* The Breakout Detector's fake-breakout check and the Criticality          *)
(* Classifier.  `ind` is the record of columns of                           *)
(* calculate_technical_indicators; the last row is row Len(ind.close).      *)

NRows(ind) == Len(ind.close)

_check_fake_breakout(ind) ==
    LET n == NRows(ind)
    IN  IF n < 3 THEN FALSE
        ELSE
          LET resistance == ind.resistance[n - 2]   \* df['resistance'].iloc[-3]
              support    == ind.support[n - 2]      \* df['support'].iloc[-3]
          IN  IF /\ Gt(ind.high[n - 2], resistance)
                 /\ Gt(ind.close[n - 1], resistance)
                 /\ Lt(ind.close[n], resistance)
              THEN TRUE
              ELSE IF /\ Lt(ind.low[n - 2], support)
                      /\ Lt(ind.close[n - 1], support)
                      /\ Gt(ind.close[n], support)
              THEN TRUE
              ELSE FALSE

\* df['volume'].rolling(window=20).mean().iloc[-1]
AvgVolumeLast(ind) ==
    LET n == NRows(ind)
    IN  IF n < VolumeWindow THEN NaN
        ELSE Num(SumInt([i \in 1 .. n |-> ind.volume[i].n],
                        n - VolumeWindow + 1, n), VolumeWindow)


\* A variant of _is_critical_moment that leaves the RSI clause out; C8 tells
\* it from the code's.
_is_critical_moment_without_rsi(ind, current_price, trend_line, support, resistance, rsi) ==
    LET trend_break ==
            /\ Truthy(trend_line)
            /\ Gt(Div(Abs(Sub(current_price, trend_line)), trend_line),
                  BreakoutThreshold)
        price_threshold == Mul(Sub(resistance, support),
                               Num(SR_BufferNum, SR_BufferDen))
        support_resistance_break ==
            /\ Truthy(support) /\ Truthy(resistance)
            /\ \/ Lt(Abs(Sub(current_price, support)), price_threshold)
               \/ Lt(Abs(Sub(current_price, resistance)), price_threshold)
        volume_spike ==
            /\ NRows(ind) > 0
            /\ Gt(ind.volume[NRows(ind)],
                  Mul(AvgVolumeLast(ind), Float(VolumeSpikeFactor)))
    IN  trend_break \/ support_resistance_break \/ volume_spike
            \/ _check_fake_breakout(ind)

\* (the try/except around the body returns False on an exception; no
\* operation of the body raises on doubles, and an empty frame never
\* reaches it: analyze_trends fails on its first .iloc[-1] before)
_is_critical_moment(ind, current_price, trend_line, support, resistance, rsi) ==
    LET trend_break ==
            /\ Truthy(trend_line)
            /\ Gt(Div(Abs(Sub(current_price, trend_line)), trend_line),
                  BreakoutThreshold)
        price_threshold == Mul(Sub(resistance, support),
                               Num(SR_BufferNum, SR_BufferDen))
        support_resistance_break ==
            /\ Truthy(support) /\ Truthy(resistance)
            /\ \/ Lt(Abs(Sub(current_price, support)), price_threshold)
               \/ Lt(Abs(Sub(current_price, resistance)), price_threshold)
        rsi_extreme ==
            /\ rsi # None
            /\ (Ge(rsi, Float(RSI_upper)) \/ Le(rsi, Float(RSI_lower)))
        volume_spike ==
            /\ NRows(ind) > 0
            /\ Gt(ind.volume[NRows(ind)],
                  Mul(AvgVolumeLast(ind), Float(VolumeSpikeFactor)))
        fake_breakout == _check_fake_breakout(ind)
    IN  trend_break \/ support_resistance_break \/ rsi_extreme
            \/ volume_spike \/ fake_breakout

----------------------------------------------------------------------------
(* Narratives.  A text is a record: the fixed messages by their kind, the   *)
(* templated narrative by its lines, the generator's text by its content.   *)
(* The source's Chinese literals are given in English.                      *)

BREAK_NONE == "no clear breakout"        \* "無明顯突破"

BREAK_UP == "recent up-break"            \* "最近出現向上突破"

BREAK_DOWN == "recent down-break"        \* "最近出現向下突破"

\* Where the double that is formatted lies relative to the value the model
\* computes exactly: it is that value, or the nearest double below or above
\* it (the value is no binary fraction, or the arithmetic that produced it
\* rounded).
FP_EXACT == "exact"

FP_BELOW == "below"

FP_ABOVE == "above"

\* f"{x:.1f}", f"{x:.2f}": the double rounded to `scale` = 10 or 100 parts of
\* a unit ("nan" for NaN).  Off a tie the double and the exact value x round
\* alike; on a tie the double decides: to even when it is x itself, down
\* when it lies below, up when it lies above.
Format(x, scale, fp) ==
    IF ~IsNum(x) THEN x
    ELSE LET twice == 2 * scale * x.n
             q == twice \div (2 * x.d)          \* floor(scale * x)
             r == twice - q * 2 * x.d           \* remainder, in 1/(2d)
             up == \/ r > x.d
                   \/ /\ r = x.d
                      /\ \/ fp = FP_ABOVE
                         \/ fp = FP_EXACT /\ q % 2 = 1
         IN  Num(IF up THEN q + 1 ELSE q, scale)

\* `fp` tells where the doubles of rsi, support and resistance lie:
\* [rsi, support, resistance].
\* (its except branch returns a fixed text; with the doubles of a computed
\* snapshot no line of the body raises)
_generate_basic_analysis(technical_data, fp) ==
    LET rsi == technical_data.rsi
        support == technical_data.support
        resistance == technical_data.resistance
    IN  [kind |-> "basic",
         trend |-> technical_data.break_analysis,
         rsi_state |-> IF Ge(rsi, Float(RSI_upper)) THEN "overbought"
                       ELSE IF Le(rsi, Float(RSI_lower)) THEN "oversold"
                       ELSE "normal",
         rsi |-> Format(rsi, 10, fp.rsi),
         levels |-> IF Truthy(support) /\ Truthy(resistance)
                    THEN <<Format(support, 100, fp.support),
                           Format(resistance, 100, fp.resistance)>>
                    ELSE <<>>]

\* What the narrative generator does when _perform_ai_analysis runs: the
\* request returns a text, the request raises, or building the client
\* raises before any request is made.
AI_TEXT == "text"

AI_REQUEST_FAILS == "request fails"

AI_CLIENT_FAILS == "client fails"

\* A variant of _perform_ai_analysis that reports the generator's failure
\* instead of falling back to the template; C6 tells it from the code's.
_perform_ai_analysis_no_fallback(symbol, technical_data, ai, fp) ==
    IF ai.k = AI_TEXT
    THEN [text |-> [kind |-> "ai", content |-> ai.text], ai_calls |-> 1]
    ELSE [text |-> [kind |-> "ai failed"],
          ai_calls |-> IF ai.k = AI_REQUEST_FAILS THEN 1 ELSE 0]

\* `ai` is what the narrative generator does: [k, text].  Returns the text
\* and the number of requests made to the generator
\* (client.chat.completions.create calls).
_perform_ai_analysis(symbol, technical_data, ai, fp) ==
    IF ai.k = AI_TEXT
    THEN [text |-> [kind |-> "ai", content |-> ai.text], ai_calls |-> 1]
    ELSE [text |-> _generate_basic_analysis(technical_data, fp),
          ai_calls |-> IF ai.k = AI_REQUEST_FAILS THEN 1 ELSE 0]

----------------------------------------------------------------------------
(* The external collaborators, as inputs.  `market` is what the market data *)
(* source does with a candle request: it raises (network or parse failure)  *)
(* or returns bars.  `ticker` is what it does with a last-price request.    *)
(* A request is recorded as [symbol, interval, days]: start_str is          *)
(* now - days.  An absent interval (None) is "", an absent day count (None) *)
(* is 0: `x or default` treats None, "" and 0 alike.                       *)

MarketError == [k |-> "error"]

Klines(bars) == [k |-> "klines", bars |-> bars]

NoFrame == [ok |-> FALSE]     \* get_historical_data's None

Frame(bars) == [ok |-> TRUE, bars |-> bars]

\* A variant of get_historical_data that validates the symbol only after the
\* request is made; C4 tells it from the code's.
get_historical_data_request_first(symbol, interval, days, market) ==
    LET interval1 == IF interval = "" THEN TIMEFRAMES_default ELSE interval
        days1 == IF days = 0 THEN ANALYSIS_default_days ELSE days
        days2 == IF days1 > ANALYSIS_max_days THEN ANALYSIS_max_days ELSE days1
        request == [symbol |-> symbol, interval |-> interval1, days |-> days2]
    IN  IF market.k = "error" \/ ~is_valid_symbol(symbol)
        THEN [df |-> NoFrame, requests |-> <<request>>]
        ELSE [df |-> Frame(market.bars), requests |-> <<request>>]

get_historical_data(symbol, interval, days, market) ==
    LET interval1 == IF interval = "" THEN TIMEFRAMES_default ELSE interval
        days1 == IF days = 0 THEN ANALYSIS_default_days ELSE days
        days2 == IF days1 > ANALYSIS_max_days THEN ANALYSIS_max_days ELSE days1
        request == [symbol |-> symbol, interval |-> interval1, days |-> days2]
    IN  IF ~is_valid_symbol(symbol)
        THEN [df |-> NoFrame, requests |-> <<>>]           \* ValueError, caught
        ELSE IF market.k = "error"
        THEN [df |-> NoFrame, requests |-> <<request>>]    \* raised, caught
        ELSE [df |-> Frame(market.bars), requests |-> <<request>>]

get_realtime_price(symbol, ticker) ==
    IF ~is_valid_symbol(symbol)
    THEN [price |-> None, requests |-> <<>>]
    ELSE IF ticker.k = "error"
    THEN [price |-> None, requests |-> <<symbol>>]
    ELSE [price |-> Float(ticker.price), requests |-> <<symbol>>]

\* df['trend_break'].dropna()[-5:]
RecentBreakValues(trend_break) ==
    LET kept == SelectSeq(trend_break, LAMBDA v : ~IsNaN(v))
        m == Len(kept)
    IN  IF m <= RecentBreaks THEN kept
        ELSE SubSeq(kept, m - RecentBreaks + 1, m)

BreakAnalysis(trend_break) ==
    LET recent_breaks == RecentBreakValues(trend_break)
    IN  IF \E i \in DOMAIN recent_breaks : recent_breaks[i] = Float(1)
        THEN BREAK_UP
        ELSE IF \E i \in DOMAIN recent_breaks : recent_breaks[i] = Float(-1)
        THEN BREAK_DOWN
        ELSE BREAK_NONE

\* the result of the `df is None` branch
UnavailableResult ==
    [technical_data |->
        [break_analysis |-> "N/A", current_price |-> None,
         trend_line |-> None, support |-> None, resistance |-> None,
         rsi |-> None],
     analysis |-> [kind |-> "unavailable"]]     \* "無法獲取市場數據"

\* A variant of the `except Exception` branch's result that carries no error
\* tag; C14 tells it from the code's.
ErrorResult_untagged ==
    [technical_data |->
        [break_analysis |-> "N/A", current_price |-> None,
         trend_line |-> None, support |-> None, resistance |-> None,
         rsi |-> None, is_critical |-> FALSE],
     analysis |-> [kind |-> "error"]]

\* the result of the `except Exception` branch
ErrorResult ==
    [technical_data |->
        [break_analysis |-> "Error", current_price |-> None,
         trend_line |-> None, support |-> None, resistance |-> None,
         rsi |-> None, is_critical |-> FALSE],
     analysis |-> [kind |-> "error"]]           \* f"分析錯誤: {e}"

\* Returns the result, the candle requests made and the number of calls made
\* to the narrative generator.
analyze_trends(symbol, interval, days, market, ai, fp) ==
    LET fetch == get_historical_data(symbol, interval, days, market)
    IN  IF ~fetch.df.ok
        THEN [result |-> UnavailableResult, requests |-> fetch.requests,
              ai_calls |-> 0]
        ELSE IF Len(fetch.df.bars) = 0
        \* df['close'].iloc[-1] raises IndexError on the empty frame
        THEN [result |-> ErrorResult, requests |-> fetch.requests,
              ai_calls |-> 0]
        ELSE
          LET ind == calculate_technical_indicators(fetch.df.bars)
              n == NRows(ind)
              current_price == ind.close[n]
              trend_line_value == ind.trend_line[n]
              support == ind.support[n]
              resistance == ind.resistance[n]
              rsi == ind.RSI[n]
              is_critical == _is_critical_moment(ind, current_price,
                                 trend_line_value, support, resistance, rsi)
              technical_data ==
                  [current_price |-> current_price,
                   trend_line |-> trend_line_value,
                   support |-> support,
                   resistance |-> resistance,
                   rsi |-> rsi,
                   break_analysis |-> BreakAnalysis(ind.trend_break),
                   is_critical |-> is_critical]
              told == IF is_critical
                      THEN _perform_ai_analysis(symbol, technical_data, ai, fp)
                      ELSE [text |-> _generate_basic_analysis(technical_data,
                                                              fp),
                            ai_calls |-> 0]
          IN  [result |-> [technical_data |-> technical_data,
                           analysis |-> told.text],
               requests |-> fetch.requests,
               ai_calls |-> told.ai_calls]

----------------------------------------------------------------------------
(* Inputs.  A series is a flat run of the base bar (no run, or just enough  *)
(* bars to fill the trend line's, the RSI's or the support/resistance       *)
(* window) followed by up to MaxTail bars drawn from TailBars and then by   *)
(* no further bar or by RecentBreaks bars like the base bar, which put the  *)
(* tail's events behind the last RecentBreaks rows.  One more series has   *)
(* an RSI on a rounding tie of its printed form.  Every bar is a valid      *)
(* candle: volume >= 0 and 0 < low <= close <= high.                        *)

MaxTail == 3

Bar(h, l, c, v) == [high |-> h, low |-> l, close |-> c, volume |-> v]

BaseBar == Bar(100, 100, 100, 10)

TailBars ==
    { Bar(100, 100, 100, 10),      \* flat
      Bar(104,  96, 100, 10),      \* a wide bar closing unchanged
      Bar(104, 100, 103, 10),      \* closes more than 2% above 100
      Bar(100,  96,  97, 10),      \* closes more than 2% below 100
      Bar(101,  99, 101, 30) }     \* a small rise on three times the volume

PrefixLens == {0, TREND_min_points, RSI_period, MA_default_period}

Flat(k) == [i \in 1 .. k |-> BaseBar]

Tails == UNION {[1 .. m -> TailBars] : m \in 0 .. MaxTail}

SuffixLens == {0, RecentBreaks}

\* closes 100, 129, 78, 78, ...: gains 29 and losses 51 over the RSI window,
\* an RSI of 145/4 = 36.25
RsiTieSeries ==
    <<Bar(100, 100, 100, 10), Bar(129, 129, 129, 10)>>
        \o [i \in 1 .. RSI_period - 1 |-> Bar(78, 78, 78, 10)]

SeriesInputs ==
    {Flat(k) \o t \o Flat(j) : k \in PrefixLens, t \in Tails, j \in SuffixLens}
        \cup {RsiTieSeries}

MarketInputs == {MarketError} \cup {Klines(bars) : bars \in SeriesInputs}

AiInputs == {[k |-> AI_TEXT, text |-> "generated"],
             [k |-> AI_REQUEST_FAILS, text |-> ""],
             [k |-> AI_CLIENT_FAILS, text |-> ""]}

\* support and resistance are a low and a high of the series, no arithmetic
\* is done on them, so their doubles are the exact values; the RSI is
\* computed, so its double may lie on either side of the exact value
FpInputs ==
    {[rsi |-> d, support |-> FP_EXACT, resistance |-> FP_EXACT] :
        d \in {FP_EXACT, FP_BELOW, FP_ABOVE}}

\* x lies halfway between two neighbours of the grid of 1/scale
IsTie(x, scale) == IsNum(x) /\ (2 * scale * x.n) % (2 * x.d) = x.d

\* The printed RSI depends on where the double lies only on a tie; off a tie
\* the three positions print alike and one of them stands for all.
FpInputsFor(rsi) == {fp \in FpInputs : IsTie(rsi, 10) \/ fp.rsi = FP_EXACT}

UNKNOWN_SYMBOL == "DOGEUSDT"

SymbolInputs == {SYMBOLS_TO_MONITOR[i] : i \in DOMAIN SYMBOLS_TO_MONITOR}
                    \cup {UNKNOWN_SYMBOL}

\* "" is an absent interval; "2d" and "1D" are not in TIMEFRAMES['available']
IntervalInputs == {"", "1d", "1h", "1M", "2d", "1D"}

\* 0 is an absent day count
DayInputs == {0, 1, ANALYSIS_default_days, ANALYSIS_max_days,
              ANALYSIS_max_days + 1, 2 * ANALYSIS_max_days}

FetchMarketInputs ==
    {MarketError, Klines(<<>>), Klines(Flat(TREND_min_points))}

TickerInputs == {[k |-> "error"]} \cup
                {[k |-> "price", price |-> p] : p \in {97, 100, 103}}

\* a flat series: a trend line at 100 and no criticality clause firing
QuietSeries == Flat(MA_default_period)

\* a series whose last bar lifts the RSI to 100
CriticalSeries == Flat(RSI_period) \o <<Bar(101, 99, 101, 30)>>

\* what the market data source does with a request of a batch
BatchMarketInputs ==
    {MarketError, Klines(QuietSeries), Klines(CriticalSeries)}

NoCall == [op |-> "none"]

\* last_analysis = {}: a function on the symbols analysed so far
NoAnalyses == [s \in {} |-> NoCall]

Init ==
    /\ alerts = <<>>
    /\ processed_alerts = {}
    /\ last_analysis = NoAnalyses
    /\ now = 0
    /\ accepted = <<>>
    /\ pc = "idle"
    /\ call = NoCall

AgentVars == <<alerts, processed_alerts, last_analysis, now, accepted>>

----------------------------------------------------------------------------
(* The realtime agent: src/main.py.  The ledger is the record               *)
(* [alerts, processed_alerts, accepted]; `t` is the minute datetime.now()   *)
(* gives.  An alert id f"{symbol}_critical_{minute}" is the tuple           *)
(* <<symbol, "critical", minute>>, f"{symbol}_{minute}" is                  *)
(* <<symbol, "price", minute>>.                                             *)

\* analyze_trends(self, symbol, interval='1d', days=30)
ANALYZE_default_interval == "1d"

ANALYZE_default_days == 30

AlertIds(seq) == {seq[i].id : i \in DOMAIN seq}

\* A variant of add_alert that keeps the first MaxAlerts alerts instead of
\* the last; C1 tells it from the code's.
add_alert_keep_first(L, message, alert_id, t) ==
    IF alert_id \notin L.processed_alerts
    THEN
      LET appended == Append(L.alerts,
                         [message |-> message, timestamp |-> t, id |-> alert_id])
      IN  [alerts |-> IF Len(appended) > MaxAlerts
                      THEN SubSeq(appended, 1, MaxAlerts) ELSE appended,
           processed_alerts |-> L.processed_alerts \cup {alert_id},
           accepted |-> Append(L.accepted, alert_id)]
    ELSE L

\* A variant of add_alert that remembers the id without looking it up first;
\* C2 tells it from the code's.
add_alert_no_lookup(L, message, alert_id, t) ==
    LET appended == Append(L.alerts,
                       [message |-> message, timestamp |-> t, id |-> alert_id])
    IN  [alerts |-> IF Len(appended) > MaxAlerts
                    THEN SubSeq(appended, Len(appended) - MaxAlerts + 1,
                                Len(appended))
                    ELSE appended,
         processed_alerts |-> L.processed_alerts \cup {alert_id},
         accepted |-> Append(L.accepted, alert_id)]

\* A variant of add_alert that never trims the seen-id set; C13 tells it
\* from the code's.
add_alert_no_trim(L, message, alert_id, t) ==
    IF alert_id \notin L.processed_alerts
    THEN
      LET appended == Append(L.alerts,
                         [message |-> message, timestamp |-> t, id |-> alert_id])
      IN  [alerts |-> IF Len(appended) > MaxAlerts
                      THEN SubSeq(appended, Len(appended) - MaxAlerts + 1,
                                  Len(appended))
                      ELSE appended,
           processed_alerts |-> L.processed_alerts \cup {alert_id},
           accepted |-> Append(L.accepted, alert_id)]
    ELSE L

add_alert(L, message, alert_id, t) ==
    IF alert_id \notin L.processed_alerts
    THEN
      LET appended == Append(L.alerts,
                         [message |-> message, timestamp |-> t, id |-> alert_id])
          seen == L.processed_alerts \cup {alert_id}
          kept == IF Len(appended) > MaxAlerts
                  THEN SubSeq(appended, Len(appended) - MaxAlerts + 1,
                              Len(appended))
                  ELSE appended
      IN  [alerts |-> kept,
           processed_alerts |-> IF Cardinality(seen) > MaxProcessed
                                THEN AlertIds(kept) ELSE seen,
           accepted |-> Append(L.accepted, alert_id)]
    ELSE L

_get_default_analysis ==
    [technical_data |->
        [break_analysis |-> "N/A", current_price |-> None,
         trend_line |-> None, support |-> None, resistance |-> None,
         rsi |-> None, is_critical |-> FALSE],
     analysis |-> [kind |-> "no analysis"]]     \* 'No analysis available'

\* technical_data.get('is_critical', False)
GetIsCritical(technical_data) ==
    IF "is_critical" \in DOMAIN technical_data
    THEN technical_data.is_critical ELSE FALSE

\* isinstance(analysis, dict)
IsDict(analysis) == "technical_data" \in DOMAIN analysis

\* last_analysis[symbol] = analysis
Store(analyses, symbol, analysis) ==
    [s \in DOMAIN analyses \cup {symbol} |->
        IF s = symbol THEN analysis ELSE analyses[s]]

\* what self.analyzer.analyze_trends(symbol) does as perform_analysis sees
\* it: it returns a value, or an Exception escapes it
Raised == [k |-> "raised"]

HasRaised(analysis) == "k" \in DOMAIN analysis /\ analysis.k = "raised"

\* A variant of one pass of perform_analysis's loop that stores nothing for
\* a symbol whose analysis raised or returned no dict; C7 tells it from the
\* code's.
PerformAnalysisOne_no_default(S, symbol, analysis, t, t_add) ==
    IF ~HasRaised(analysis) /\ IsDict(analysis)
    THEN [L |-> IF GetIsCritical(analysis.technical_data)
                THEN add_alert(S.L,
                         [kind |-> "critical", symbol |-> symbol,
                          analysis |-> analysis.analysis],
                         <<symbol, "critical", t>>, t_add)
                ELSE S.L,
          last_analysis |-> Store(S.last_analysis, symbol, analysis)]
    ELSE S

\* One pass of perform_analysis's loop.  S is [L, last_analysis];
\* `analysis` is what self.analyzer.analyze_trends(symbol) did: Raised, or
\* the value it returned; t is the minute datetime.now() gives for the
\* alert id after the call, t_add the minute it gives add_alert for the
\* alert's timestamp.
PerformAnalysisOne(S, symbol, analysis, t, t_add) ==
    IF HasRaised(analysis)
    THEN [L |-> S.L,                                \* except Exception
          last_analysis |->
              Store(S.last_analysis, symbol, _get_default_analysis)]
    ELSE IF IsDict(analysis)
    THEN [L |-> IF GetIsCritical(analysis.technical_data)
                THEN add_alert(S.L,
                         [kind |-> "critical", symbol |-> symbol,
                          analysis |-> analysis.analysis],
                         <<symbol, "critical", t>>, t_add)
                ELSE S.L,
          last_analysis |-> Store(S.last_analysis, symbol, analysis)]
    ELSE [L |-> S.L,
          last_analysis |->
              Store(S.last_analysis, symbol, _get_default_analysis)]

check_price_alerts(S, symbol, current_price, t, t_add) ==
    IF symbol \notin DOMAIN S.last_analysis THEN S.L
    ELSE
      LET technical_data == S.last_analysis[symbol].technical_data
          alert_id == <<symbol, "price", t>>
          trend_line == technical_data.trend_line
      IN  IF GetIsCritical(technical_data) THEN S.L
          ELSE IF ~Truthy(trend_line) THEN S.L
          ELSE IF /\ Gt(current_price, Mul(trend_line, OnePlusThreshold))
                  /\ alert_id \notin S.L.processed_alerts
          THEN add_alert(S.L, [kind |-> "up", symbol |-> symbol,
                               price |-> current_price], alert_id, t_add)
          ELSE IF /\ Lt(current_price, Mul(trend_line, OneMinusThreshold))
                  /\ alert_id \notin S.L.processed_alerts
          THEN add_alert(S.L, [kind |-> "down", symbol |-> symbol,
                               price |-> current_price], alert_id, t_add)
          ELSE S.L

\* one pass of update_prices's loop; t is the minute datetime.now() gives
\* check_price_alerts for the alert id after the get_realtime_price call,
\* t_add the minute it gives add_alert for the alert's timestamp.  (It also
\* stores the price and its change in current_prices and price_changes,
\* which only the display reads; they are not part of this model's state.)
UpdatePricesOne(S, symbol, ticker, t, t_add) ==
    LET price == get_realtime_price(symbol, ticker).price
    IN  IF Truthy(price)
        THEN [L |-> check_price_alerts(S, symbol, price, t, t_add),
              last_analysis |-> S.last_analysis]
        ELSE S

----------------------------------------------------------------------------
(* The analyzer's operations, each called on drawn inputs; `call` keeps the *)
(* inputs and what came back until Return.                                  *)

\* analyze_trends(symbol): interval and days take their defaults, as in the
\* agent's call
AnalyzeTrends ==
    /\ pc = "idle"
    /\ \E symbol \in {SYMBOLS_TO_MONITOR[1], UNKNOWN_SYMBOL},
          market \in MarketInputs, ai \in AiInputs :
          \E exact \in {analyze_trends(symbol, ANALYZE_default_interval,
                            ANALYZE_default_days, market, ai,
                            [rsi |-> FP_EXACT, support |-> FP_EXACT,
                             resistance |-> FP_EXACT])} :
              \E fp \in FpInputsFor(exact.result.technical_data.rsi) :
                call' = [op |-> "analyze_trends", symbol |-> symbol,
                         market |-> market, ai |-> ai, fp |-> fp,
                         ret |-> IF fp.rsi = FP_EXACT THEN exact
                                 ELSE analyze_trends(symbol,
                                          ANALYZE_default_interval,
                                          ANALYZE_default_days, market, ai,
                                          fp)]
    /\ pc' = "done"
    /\ UNCHANGED AgentVars

GetHistoricalData ==
    /\ pc = "idle"
    /\ \E symbol \in SymbolInputs, interval \in IntervalInputs,
          days \in DayInputs, market \in FetchMarketInputs :
          call' = [op |-> "get_historical_data", symbol |-> symbol,
                   interval |-> interval, days |-> days, market |-> market,
                   ret |-> get_historical_data(symbol, interval, days, market)]
    /\ pc' = "done"
    /\ UNCHANGED AgentVars

GetRealtimePrice ==
    /\ pc = "idle"
    /\ \E symbol \in SymbolInputs, ticker \in TickerInputs :
          call' = [op |-> "get_realtime_price", symbol |-> symbol,
                   ticker |-> ticker,
                   ret |-> get_realtime_price(symbol, ticker)]
    /\ pc' = "done"
    /\ UNCHANGED AgentVars

Return ==
    /\ pc = "done"
    /\ pc' = "idle"
    /\ call' = NoCall
    /\ UNCHANGED AgentVars

NextAnalyzer == AnalyzeTrends \/ GetHistoricalData \/ GetRealtimePrice \/ Return

SpecAnalyzer == Init /\ [][NextAnalyzer]_vars

----------------------------------------------------------------------------
(* The agent's operations.  `call` keeps what the last operation was given. *)

\* Bounds of the exploration, not limits of the program: the clock is
\* followed up to the minute MaxMinute, and a batch is started only while
\* fewer than MaxAccepted alerts have been accepted (a batch that has
\* started always runs through all its passes, whatever it accepts).
MaxMinute == 2

MaxAccepted == 1

MaxId == 6

Ledger == [alerts |-> alerts, processed_alerts |-> processed_alerts,
           accepted |-> accepted]

AgentState == [L |-> Ledger, last_analysis |-> last_analysis]

SetLedger(L) ==
    /\ alerts' = L.alerts
    /\ processed_alerts' = L.processed_alerts
    /\ accepted' = L.accepted

\* the RSI of QuietSeries is not-a-number and that of CriticalSeries is 100:
\* no printed value of a batch is on a rounding tie, and where the doubles
\* lie changes nothing
BatchFp == [rsi |-> FP_EXACT, support |-> FP_EXACT, resistance |-> FP_EXACT]

\* analyze_trends(symbol) on every input a batch can draw, evaluated once
BatchAnalyses ==
    [symbol \in {SYMBOLS_TO_MONITOR[i] : i \in DOMAIN SYMBOLS_TO_MONITOR} |->
      [market \in BatchMarketInputs |->
        [ai \in AiInputs |->
            analyze_trends(symbol, ANALYZE_default_interval,
                           ANALYZE_default_days, market, ai, BatchFp).result]]]

\* what an analyze_trends call of a batch does: an Exception escapes it, it
\* returns None, or it runs on what the market data source does with its
\* request
AnalyzerRaises == [k |-> "raises"]

AnalyzerReturnsNone == [k |-> "returns None"]

BatchInputs == BatchMarketInputs \cup {AnalyzerRaises, AnalyzerReturnsNone}

\* what analyze_trends(symbol) gives perform_analysis on the input `outcome`
BatchAnalysis(symbol, outcome, ai) ==
    IF outcome = AnalyzerRaises THEN Raised
    ELSE IF outcome = AnalyzerReturnsNone THEN None
    ELSE BatchAnalyses[symbol][outcome][ai]

\* The agent is single-threaded: start() calls update_prices and
\* perform_analysis in turn.  Each pass of their loops makes one blocking
\* call to the analyzer and reads the clock after it, so the minute can
\* change between two passes of one batch: a batch is one step that enters
\* it and one step per symbol, and only the clock moves in between.

\* a pass whose analyze_trends call never reaches the narrative generator
AiNotAsked == [k |-> "not asked", text |-> ""]

\* analyze_trends(symbol) on `outcome` calls _perform_ai_analysis: it ran to
\* a critical snapshot
GeneratorAsked(symbol, outcome, ai) ==
    /\ outcome \in BatchMarketInputs
    /\ GetIsCritical(BatchAnalyses[symbol][outcome][ai].technical_data)

\* perform_analysis is called: its loop is entered
PerformAnalysis ==
    /\ pc = "idle"
    /\ Len(accepted) < MaxAccepted
    /\ call' = [op |-> "perform_analysis", outcomes |-> <<>>, ais |-> <<>>]
    /\ pc' = "perform_analysis"
    /\ UNCHANGED AgentVars

\* one pass of perform_analysis's loop: the next symbol's analyze_trends
\* call does `outcome`, the narrative generator does `ai` with the request of
\* this pass, if one is made; the alert id is made at the minute `now` and
\* add_alert reads the clock again, at the minute `later`
PerformAnalysisPass ==
    /\ pc = "perform_analysis"
    /\ LET i == Len(call.outcomes) + 1
           symbol == SYMBOLS_TO_MONITOR[i]
       IN  /\ \E outcome \in BatchInputs, ai \in AiInputs,
                    later \in now .. MaxMinute :
                 \E S \in {PerformAnalysisOne(AgentState, symbol,
                              BatchAnalysis(symbol, outcome, ai), now,
                              later)},
                    did \in {IF GeneratorAsked(symbol, outcome, ai)
                             THEN ai ELSE AiNotAsked} :
                     /\ SetLedger(S.L)
                     /\ last_analysis' = S.last_analysis
                     /\ call' = [call EXCEPT
                            !.outcomes = Append(@, outcome),
                            !.ais = Append(@, did)]
                     /\ now' = IF Len(S.L.accepted) > Len(accepted)
                               THEN later ELSE now
           /\ pc' = IF i = Len(SYMBOLS_TO_MONITOR) THEN "idle" ELSE pc

\* update_prices is called: its loop is entered
UpdatePrices ==
    /\ pc = "idle"
    /\ Len(accepted) < MaxAccepted
    /\ call' = [op |-> "update_prices", passes |-> 0]
    /\ pc' = "update_prices"
    /\ UNCHANGED AgentVars

\* one pass of update_prices's loop: the next symbol's get_realtime_price
\* call does `ticker`; the alert id is made at the minute `now` and
\* add_alert reads the clock again, at the minute `later`
UpdatePricesPass ==
    /\ pc = "update_prices"
    /\ LET i == call.passes + 1
       IN  /\ \E ticker \in TickerInputs, later \in now .. MaxMinute :
                 \E S \in {UpdatePricesOne(AgentState, SYMBOLS_TO_MONITOR[i],
                                           ticker, now, later)} :
                     /\ SetLedger(S.L)
                     /\ now' = IF Len(S.L.accepted) > Len(accepted)
                               THEN later ELSE now
           /\ call' = [call EXCEPT !.passes = i]
           /\ pc' = IF i = Len(SYMBOLS_TO_MONITOR) THEN "idle" ELSE pc
    /\ UNCHANGED last_analysis

\* the clock reaches the next minute, between two batches or during a
\* blocking call of a batch
Tick ==
    /\ pc \in {"idle", "perform_analysis", "update_prices"}
    /\ now < MaxMinute
    /\ now' = now + 1
    /\ UNCHANGED <<alerts, processed_alerts, last_analysis, accepted, pc, call>>

Next ==
    \/ PerformAnalysis \/ PerformAnalysisPass
    \/ UpdatePrices \/ UpdatePricesPass
    \/ Tick

Spec == Init /\ [][Next]_vars

\* add_alert called on its own, with an id drawn from 1..MaxId
AddAlert ==
    /\ pc = "idle"
    /\ \E alert_id \in 1 .. MaxId :
          /\ \E L \in {add_alert(Ledger, [kind |-> "manual"], alert_id, now)} :
                SetLedger(L)
          /\ call' = [op |-> "add_alert", id |-> alert_id,
                      seen |-> alert_id \in processed_alerts]
    /\ UNCHANGED <<last_analysis, now, pc>>

NextLedger == AddAlert

SpecLedger == Init /\ [][NextLedger]_vars

----------------------------------------------------------------------------
(* add_alert near the seen-id limit: the agent has accepted the ids         *)
(* 1..TrimStart, two short of MaxProcessed, and add_alert is called with    *)
(* ids around the limit.                                                    *)

MaxFresh == 4

MaxTrimAccepted == 5

TrimStart == MaxProcessed - 2

RECURSIVE AddAlertsFromTo(_, _, _)
\* the ledger after add_alert was called with the ids lo..hi in turn (the
\* range is halved, and the ledger after the first half bound as an element
\* of a set, to keep the evaluation shallow)
AddAlertsFromTo(L, lo, hi) ==
    IF lo > hi THEN L
    ELSE IF lo = hi THEN add_alert(L, [kind |-> "manual"], lo, 0)
    ELSE LET mid == (lo + hi) \div 2
         IN  CHOOSE L2 \in
                {AddAlertsFromTo(L1, mid + 1, hi) :
                    L1 \in {AddAlertsFromTo(L, lo, mid)}} : TRUE

LedgerAtTrimStart ==
    AddAlertsFromTo([alerts |-> <<>>, processed_alerts |-> {},
                     accepted |-> <<>>], 1, TrimStart)

InitTrim ==
    /\ alerts = LedgerAtTrimStart.alerts
    /\ processed_alerts = LedgerAtTrimStart.processed_alerts
    /\ accepted = LedgerAtTrimStart.accepted
    /\ last_analysis = NoAnalyses
    /\ now = 0
    /\ pc = "idle"
    /\ call = NoCall

\* two ids seen before the start and MaxFresh ids new to the agent
TrimIds == TrimStart - 1 .. TrimStart + MaxFresh

AddAlertNearLimit ==
    /\ pc = "idle"
    /\ Len(accepted) < TrimStart + MaxTrimAccepted
    /\ \E alert_id \in TrimIds :
          /\ \E L \in {add_alert(Ledger, [kind |-> "manual"], alert_id, now)} :
                SetLedger(L)
          /\ call' = [op |-> "add_alert", id |-> alert_id,
                      seen |-> alert_id \in processed_alerts]
    /\ UNCHANGED <<last_analysis, now, pc>>

NextTrim == AddAlertNearLimit

SpecTrim == InitTrim /\ [][NextTrim]_vars

----------------------------------------------------------------------------
(* Properties of the analyzer, checked under SpecAnalyzer.                  *)

Monitored == {"BTCUSDT", "ETHUSDT", "SOLUSDT"}

Returned(op) == pc = "done" /\ call.op = op

\* the fetch inside the call failed: the symbol is rejected or the source raised
FetchFailed == call.symbol \notin Monitored \/ call.market.k = "error"

\* the fetch inside the call returned at least one bar
SeriesFetched ==
    /\ call.symbol \in Monitored
    /\ call.market.k = "klines"
    /\ Len(call.market.bars) > 0

NumericFieldsNull(td) ==
    /\ td.current_price = None /\ td.trend_line = None
    /\ td.support = None /\ td.resistance = None /\ td.rsi = None

\* C3: when the fetch fails, analyze_trends returns a result whose isCritical
\* is false, whose currentPrice, trendLine, support, resistance and rsi are
\* null and whose narrative is the fixed "market data unavailable" message,
\* and the narrative generator is not invoked.
C3_DegradedMode ==
    (Returned("analyze_trends") /\ FetchFailed) =>
        LET td == call.ret.result.technical_data
        IN  /\ "is_critical" \in DOMAIN td
            /\ td.is_critical = FALSE
            /\ NumericFieldsNull(td)
            /\ call.ret.result.analysis = [kind |-> "unavailable"]
            /\ call.ret.ai_calls = 0

\* what does hold of the degraded result: every part of C3 but the field
C3_DegradedModeWithoutField ==
    (Returned("analyze_trends") /\ FetchFailed) =>
        LET td == call.ret.result.technical_data
        IN  /\ "is_critical" \notin DOMAIN td
            /\ NumericFieldsNull(td)
            /\ call.ret.result.analysis = [kind |-> "unavailable"]
            /\ call.ret.ai_calls = 0

\* C4: for a symbol outside the monitored set, get_historical_data returns
\* no data and get_realtime_price returns no price, and neither makes any
\* call to the market data source.
C4_InvalidSymbolNoNetwork ==
    /\ (Returned("get_historical_data") /\ call.symbol \notin Monitored) =>
            (call.ret.df = NoFrame /\ call.ret.requests = <<>>)
    /\ (Returned("get_realtime_price") /\ call.symbol \notin Monitored) =>
            (call.ret.price = None /\ call.ret.requests = <<>>)
    /\ (Returned("analyze_trends") /\ call.symbol \notin Monitored) =>
            call.ret.requests = <<>>

C4_Witness ==
    /\ Returned("get_historical_data")
    /\ call.symbol = "DOGEUSDT"
    /\ call.market.k = "klines"
    /\ call.ret.df = NoFrame

\* C5: every candle request get_historical_data issues has a day count no
\* greater than the configured maximum and an interval of the allowed set.
C5_RequestsClampedAndAllowed ==
    Returned("get_historical_data") =>
        \A i \in DOMAIN call.ret.requests :
            /\ call.ret.requests[i].days <= ANALYSIS_max_days
            /\ call.ret.requests[i].interval \in TIMEFRAMES_available

\* what does hold of the requests: the day count is clamped, and an absent
\* interval is replaced by the default
C5_DaysClamped ==
    Returned("get_historical_data") =>
        \A i \in DOMAIN call.ret.requests :
            /\ call.ret.requests[i].days <= ANALYSIS_max_days
            /\ call.interval = "" =>
                    call.ret.requests[i].interval = TIMEFRAMES_default

\* C6: with a series fetched, the narrative generator is called only when
\* the snapshot is critical; the narrative is the generator's text when the
\* snapshot is critical and the generator succeeds, and the templated
\* narrative of the same snapshot otherwise.
C6_NarrativePath ==
    (Returned("analyze_trends") /\ SeriesFetched) =>
        LET td == call.ret.result.technical_data
            text == call.ret.result.analysis
        IN  /\ call.ret.ai_calls > 0 => td.is_critical
            /\ (td.is_critical /\ call.ai.k = AI_TEXT) =>
                    text = [kind |-> "ai", content |-> call.ai.text]
            /\ ~(td.is_critical /\ call.ai.k = AI_TEXT) =>
                    /\ text.kind = "basic"
                    /\ text = _generate_basic_analysis(td, call.fp)

\* a critical snapshot whose generator failed, answered by the template
C6_Witness ==
    /\ Returned("analyze_trends") /\ SeriesFetched
    /\ call.ret.result.technical_data.is_critical
    /\ call.ai.k = AI_REQUEST_FAILS
    /\ call.ret.ai_calls = 1
    /\ call.ret.result.analysis.kind = "basic"


\* the columns of the series the call fetched
Ind == calculate_technical_indicators(call.market.bars)

Bars == call.market.bars

\* The five clauses of the criticality rule, stated on the snapshot's values
\* and the series in integer arithmetic.  A value is defined when it is a
\* number; a clause with an undefined input is false.
C8_TrendClause(td) ==
    LET p == td.current_price
        t == td.trend_line
    IN  /\ IsNum(t) /\ t.n > 0
        \* |p - t| / t > 2/100, with t = t.n / t.d > 0
        /\ BreakoutThresholdDen * AbsInt(p.n * t.d - t.n)
              > BreakoutThresholdNum * t.n

C8_LevelsClause(td) ==
    LET p == td.current_price
        s == td.support
        r == td.resistance
    IN  /\ IsNum(s) /\ IsNum(r)
        /\ \/ 100 * AbsInt(p.n - s.n) < 2 * (r.n - s.n)
           \/ 100 * AbsInt(p.n - r.n) < 2 * (r.n - s.n)

C8_RsiClause(td) ==
    /\ IsNum(td.rsi)
    /\ (td.rsi.n >= 70 * td.rsi.d \/ td.rsi.n <= 30 * td.rsi.d)

C8_VolumeClause ==
    LET n == Len(Bars)
    IN  /\ n >= 20
        \* volume > 2 * (sum of the last 20 volumes) / 20
        /\ 20 * Bars[n].volume
              > 2 * SumInt([i \in 1 .. n |-> Bars[i].volume], n - 19, n)

C8_FakeClause == _check_fake_breakout(Ind)

\* C8: the criticality verdict is true exactly when at least one of the five
\* clauses holds, a clause with an undefined input counting as false.
C8_CriticalIffSomeClause ==
    (Returned("analyze_trends") /\ SeriesFetched) =>
        LET td == call.ret.result.technical_data
        IN  td.is_critical =
                (\/ C8_TrendClause(td) \/ C8_LevelsClause(td)
                 \/ C8_RsiClause(td) \/ C8_VolumeClause \/ C8_FakeClause)

\* the RSI clause alone makes the snapshot critical: the levels are
\* undefined, the other clauses are false
C8_Witness ==
    /\ Returned("analyze_trends") /\ SeriesFetched
    /\ LET td == call.ret.result.technical_data
       IN  /\ C8_RsiClause(td)
           /\ ~C8_TrendClause(td) /\ ~C8_LevelsClause(td)
           /\ ~C8_VolumeClause /\ ~C8_FakeClause
           /\ IsNaN(td.support)
           /\ td.is_critical

\* The fake-breakout pattern on the last three bars n-2, n-1, n, against the
\* resistance (support) level as it stood before them, at bar n-3.
C9_UpFakePattern ==
    LET n == Len(Bars)
        level == Ind.resistance[n - 3]
    IN  /\ n >= 4 /\ IsNum(level)
        /\ Bars[n - 2].high > level.n
        /\ Bars[n - 1].close > level.n
        /\ Bars[n].close < level.n

C9_DownFakePattern ==
    LET n == Len(Bars)
        level == Ind.support[n - 3]
    IN  /\ n >= 4 /\ IsNum(level)
        /\ Bars[n - 2].low < level.n
        /\ Bars[n - 1].close < level.n
        /\ Bars[n].close > level.n

\* C9: for every series whose last three bars show the fake-breakout pattern
\* (high above the reference resistance, next close still above it, last
\* close back below it, or the mirror image on support), the fake-breakout
\* check returns true and the snapshot is critical.
C9_FakeBreakoutDetected ==
    (Returned("analyze_trends") /\ SeriesFetched
        /\ (C9_UpFakePattern \/ C9_DownFakePattern)) =>
        /\ _check_fake_breakout(Ind)
        /\ call.ret.result.technical_data.is_critical

\* what the code does instead: with the reference level read at bar n-2,
\* the first of the three bars, the check returns true for no series
C9_NeverDetected ==
    (Returned("analyze_trends") /\ SeriesFetched) => ~_check_fake_breakout(Ind)

\* The breakout conditions at row t, in integer arithmetic: prior support
\* and resistance are defined from row MA_default_period + 1 on.
C10_Up(t) ==
    /\ t > 1 /\ IsNum(Ind.resistance[t - 1])
    /\ 100 * Bars[t].close > 102 * Ind.resistance[t - 1].n
    /\ Bars[t - 1].close <= Ind.resistance[t - 1].n

C10_Down(t) ==
    /\ t > 1 /\ IsNum(Ind.support[t - 1])
    /\ 100 * Bars[t].close < 98 * Ind.support[t - 1].n
    /\ Bars[t - 1].close >= Ind.support[t - 1].n

\* C10: at every row the breakout event is Up (1) when the up-break
\* condition holds, Down (-1) when the down-break condition holds and the
\* up-break condition does not, and None (NaN) otherwise; the two conditions
\* never hold at the same row.
C10_BreakoutEvents ==
    (Returned("analyze_trends") /\ SeriesFetched) =>
        \A t \in 1 .. Len(Bars) :
            /\ ~(C10_Up(t) /\ C10_Down(t))
            /\ Ind.trend_break[t] =
                  (IF C10_Up(t) THEN Float(1)
                   ELSE IF C10_Down(t) THEN Float(-1)
                   ELSE NaN)

\* a series with an up-break at one row and a down-break at the next
C10_Witness ==
    /\ Returned("analyze_trends") /\ SeriesFetched
    /\ \E t \in 2 .. Len(Bars) :
          /\ C10_Up(t - 1) /\ Ind.trend_break[t - 1] = Float(1)
          /\ C10_Down(t) /\ Ind.trend_break[t] = Float(-1)

----------------------------------------------------------------------------
(* Properties of the alert ledger, checked under SpecLedger.  `accepted`    *)
(* is the history of the ids add_alert accepted, in arrival order.          *)

\* the ids of the ledger's alerts, in the ledger's order
LedgerIds == [i \in DOMAIN alerts |-> alerts[i].id]

\* the last k entries of a sequence
LastOf(seq, k) ==
    IF Len(seq) <= k THEN seq ELSE SubSeq(seq, Len(seq) - k + 1, Len(seq))

\* C1: after any sequence of add_alert calls the ledger holds at most 5
\* alerts, and they are exactly the most recently accepted alerts, in the
\* order they arrived.
C1_LastFiveInArrivalOrder ==
    /\ Len(alerts) <= 5
    /\ LedgerIds = LastOf(accepted, 5)

\* six distinct ids were accepted and the ledger holds the last five
C1_Witness ==
    /\ call.op = "add_alert"
    /\ Len(accepted) = 6
    /\ Cardinality({accepted[i] : i \in DOMAIN accepted}) = 6
    /\ LedgerIds = SubSeq(accepted, 2, 6)

NoSharedIds ==
    \A i, j \in DOMAIN alerts : alerts[i].id = alerts[j].id => i = j

\* C2: an add_alert call whose id is already in the seen-id set leaves the
\* ledger and the seen-id set unchanged; in every reachable state no two
\* alerts of the ledger share an id and every retained alert's id is in the
\* seen-id set.
C2_DeduplicatedById ==
    /\ [](NoSharedIds /\ AlertIds(alerts) \subseteq processed_alerts)
    /\ [][(call'.op = "add_alert" /\ call'.id \in processed_alerts) =>
            (alerts' = alerts /\ processed_alerts' = processed_alerts)]_vars

\* add_alert was called with an id it had seen, whose alert is still held
C2_Witness ==
    /\ call.op = "add_alert" /\ call.seen
    /\ Cardinality({i \in DOMAIN alerts : alerts[i].id = call.id}) = 1
    /\ Len(alerts) > 1

----------------------------------------------------------------------------
(* Properties of the batch analysis, checked under Spec.                    *)

\* the i-th analyze_trends call of the batch failed as perform_analysis
\* sees it: it raised, or returned no dict
BatchCallFailed(i) ==
    call.outcomes[i] \in {AnalyzerRaises, AnalyzerReturnsNone}

\* the i-th call's fetch failed inside analyze_trends, which contains it
BatchFetchFailed(i) == call.outcomes[i] = MarketError

\* what the narrative generator did in the i-th pass; any of its outcomes
\* when the pass did not ask it, whose result is the same for all of them
BatchAis(i) ==
    IF call.ais[i] = AiNotAsked THEN AiInputs ELSE {call.ais[i]}

\* C7: whatever each symbol's analysis did, perform_analysis goes through
\* every monitored symbol: each symbol passed has a last-analysis entry, and
\* when the batch has returned all of them have; the entry of a symbol whose
\* analysis failed is the default non-critical snapshot, and the entry of
\* every other symbol is the result of its own analysis (null-valued and not
\* critical to the agent when its fetch failed).
C7_BatchContainsFailures ==
    call.op = "perform_analysis" =>
        /\ pc = "idle" => Len(call.outcomes) = Len(SYMBOLS_TO_MONITOR)
        /\ pc \in {"idle", "perform_analysis"}
        /\ Len(call.ais) = Len(call.outcomes)
        /\ \A i \in DOMAIN call.outcomes :
            LET symbol == SYMBOLS_TO_MONITOR[i]
            IN  /\ symbol \in DOMAIN last_analysis
                /\ IF BatchCallFailed(i)
                   THEN /\ last_analysis[symbol] = _get_default_analysis
                        /\ last_analysis[symbol].technical_data.is_critical
                              = FALSE
                        /\ NumericFieldsNull(
                              last_analysis[symbol].technical_data)
                   ELSE /\ \A ai \in BatchAis(i) :
                              last_analysis[symbol] =
                                BatchAnalyses[symbol][call.outcomes[i]][ai]
                        /\ BatchFetchFailed(i) =>
                              /\ NumericFieldsNull(
                                    last_analysis[symbol].technical_data)
                              /\ ~GetIsCritical(
                                    last_analysis[symbol].technical_data)

\* a batch that has returned, whose first analysis raised, whose second was
\* critical and whose third had its fetch fail
C7_Witness ==
    /\ call.op = "perform_analysis" /\ pc = "idle"
    /\ call.outcomes =
          <<AnalyzerRaises, Klines(CriticalSeries), MarketError>>
    /\ call.ais[2].k = AI_REQUEST_FAILS
    /\ last_analysis[SYMBOLS_TO_MONITOR[1]] = _get_default_analysis
    /\ last_analysis[SYMBOLS_TO_MONITOR[2]].technical_data.is_critical
    /\ last_analysis[SYMBOLS_TO_MONITOR[3]] = UnavailableResult
    /\ Len(alerts) = 1

----------------------------------------------------------------------------
(* Properties of the RSI column, checked under SpecAnalyzer.                *)

\* the sum of the gains (sign = 1) or of the losses (sign = -1) of the
\* RSI_period close-to-close changes ending at row t > RSI_period
C11_WindowMove(t, sign) ==
    SumInt([i \in 1 .. Len(Bars) |->
               IF i > 1 /\ sign * (Bars[i].close - Bars[i - 1].close) > 0
               THEN sign * (Bars[i].close - Bars[i - 1].close) ELSE 0],
           t - RSI_period + 1, t)

C11_InZeroToHundred(x) ==
    IsNum(x) /\ 0 <= x.n /\ x.n <= 100 * x.d

\* C11: at every row whose RSI window holds RSI_period price changes the RSI
\* is a number in [0, 100] (100 when the window has no loss), and the
\* snapshot's rsi is then a number too, never not-a-number.
C11_RsiDefinedAndBounded ==
    (Returned("analyze_trends") /\ SeriesFetched) =>
        /\ \A t \in RSI_period + 1 .. Len(Bars) :
              /\ C11_InZeroToHundred(Ind.RSI[t])
              /\ C11_WindowMove(t, -1) = 0 => Ind.RSI[t] = Float(100)
        /\ Len(Bars) > RSI_period =>
              C11_InZeroToHundred(call.ret.result.technical_data.rsi)

\* what does hold of the RSI: it is not-a-number exactly on a window with
\* neither gain nor loss, 100 on a window with gain and no loss, and a
\* number in [0, 100] otherwise
C11_RsiNaNOnFlatWindow ==
    (Returned("analyze_trends") /\ SeriesFetched) =>
        \A t \in RSI_period + 1 .. Len(Bars) :
            IF C11_WindowMove(t, 1) = 0 /\ C11_WindowMove(t, -1) = 0
            THEN IsNaN(Ind.RSI[t])
            ELSE /\ C11_InZeroToHundred(Ind.RSI[t])
                 /\ C11_WindowMove(t, -1) = 0 => Ind.RSI[t] = Float(100)

\* a flat window whose not-a-number RSI is the snapshot's rsi
C11_FlatWindowReached ==
    /\ Returned("analyze_trends") /\ SeriesFetched
    /\ Len(Bars) > RSI_period
    /\ C11_WindowMove(Len(Bars), 1) = 0 /\ C11_WindowMove(Len(Bars), -1) = 0
    /\ IsNaN(call.ret.result.technical_data.rsi)

----------------------------------------------------------------------------
(* Properties of the breakout summary, checked under SpecAnalyzer.          *)

\* the summary of the events at the rows of `rows`
C12_SummaryOf(rows) ==
    IF \E t \in rows : Ind.trend_break[t] = Float(1) THEN BREAK_UP
    ELSE IF \E t \in rows : Ind.trend_break[t] = Float(-1) THEN BREAK_DOWN
    ELSE BREAK_NONE

\* the 5 most recent timestamps of the series
C12_LastFiveRows == {t \in 1 .. Len(Bars) : t > Len(Bars) - 5}

\* the rows that hold an Up or a Down event
C12_EventRows == {t \in 1 .. Len(Bars) : ~IsNaN(Ind.trend_break[t])}

\* the rows of the 5 most recent Up or Down events, however old
C12_LastFiveEventRows ==
    {t \in C12_EventRows : Cardinality({u \in C12_EventRows : u > t}) < 5}

\* C12: the breakout summary is the summary of the events of the 5 most
\* recent timestamps: up if any of them is Up, otherwise down if any is
\* Down, otherwise none; an older breakout does not influence it.
C12_SummaryOfLastFiveRows ==
    (Returned("analyze_trends") /\ SeriesFetched) =>
        call.ret.result.technical_data.break_analysis
            = C12_SummaryOf(C12_LastFiveRows)

\* what does hold: the summary is that of the 5 most recent Up or Down
\* events, the rows without an event being dropped before the last 5 are
\* taken
C12_SummaryOfLastFiveEvents ==
    (Returned("analyze_trends") /\ SeriesFetched) =>
        call.ret.result.technical_data.break_analysis
            = C12_SummaryOf(C12_LastFiveEventRows)

\* an up-break more than 5 timestamps before the last bar, none since, and
\* the summary reports it
C12_OldBreakReported ==
    /\ Returned("analyze_trends") /\ SeriesFetched
    /\ C12_EventRows # {}
    /\ C12_EventRows \cap C12_LastFiveRows = {}
    /\ call.ret.result.technical_data.break_analysis = BREAK_UP

----------------------------------------------------------------------------
(* Properties of the seen-id set, checked under SpecTrim.                   *)

\* C13: at the end of every add_alert call the seen-id set holds at most
\* 1000 ids; a call that accepts an alert and would make the count exceed
\* 1000 replaces the set by exactly the ids of the alerts the ledger retains
\* (at most 5), and any other accepting call only adds the accepted id.
C13_SeenIdsTrimmed ==
    /\ [](Cardinality(processed_alerts) <= 1000)
    /\ [][(call'.op = "add_alert" /\ call'.id \notin processed_alerts) =>
            IF Cardinality(processed_alerts \cup {call'.id}) > 1000
            THEN /\ processed_alerts' = {alerts'[i].id : i \in DOMAIN alerts'}
                 /\ Cardinality(processed_alerts') <= 5
            ELSE processed_alerts' = processed_alerts \cup {call'.id}]_vars

\* the 1001st id was just accepted and the set collapsed to the five
\* retained ids
C13_Witness ==
    /\ call.op = "add_alert" /\ ~call.seen
    /\ Len(accepted) = 1001
    /\ Cardinality({accepted[i] : i \in DOMAIN accepted}) = 1001
    /\ Cardinality(processed_alerts) = 5
    /\ processed_alerts = {alerts[i].id : i \in DOMAIN alerts}
    /\ call.id \in processed_alerts

----------------------------------------------------------------------------
(* Properties of the error snapshot, checked under SpecAnalyzer.            *)

\* the fetch inside the call succeeded and returned no bar, so that reading
\* the last bar fails
C14_ComputationFails ==
    /\ call.symbol \in Monitored
    /\ call.market.k = "klines"
    /\ Len(call.market.bars) = 0

\* C14: when the fetch succeeds and the computation fails on the series,
\* analyze_trends returns a snapshot whose numeric fields are null, whose
\* isCritical is false and whose breakout summary is the error tag, with the
\* error narrative, and the narrative generator is not invoked.
C14_ErrorSnapshot ==
    (Returned("analyze_trends") /\ C14_ComputationFails) =>
        LET td == call.ret.result.technical_data
        IN  /\ NumericFieldsNull(td)
            /\ "is_critical" \in DOMAIN td
            /\ td.is_critical = FALSE
            /\ td.break_analysis = "Error"
            /\ call.ret.result.analysis = [kind |-> "error"]
            /\ call.ret.ai_calls = 0

\* an empty series was fetched, by one request, and the call returned
C14_Witness ==
    /\ Returned("analyze_trends") /\ C14_ComputationFails
    /\ Len(call.ret.requests) = 1
    /\ call.ret.result.technical_data.break_analysis = "Error"

============================================================================
